---- MODULE Spec2Model ----
(***************************************************************************)
(* A model of gemini_helper.py: generate_command (backend reply -> parsed  *)
(* suggestion), execute_command (subprocess outcome -> text), process_query *)
(* (present, confirm, execute) and the read loop of main.                  *)
(*                                                                         *)
(* A backend reply is a sequence of tokens [k, v]:                         *)
(*   k = "{" , "}"   a brace character                                     *)
(*   k = "w"         whitespace                                            *)
(*   k = "p"         prose or a code fence (text that is no JSON)          *)
(*   k = "n"         a JSON scalar such as null or 42                      *)
(*   k = a key       one "key": value member of an object, v its JSON text *)
(* Text shown or returned to the user is a sequence of chunks (strings).   *)
(***************************************************************************)
EXTENDS Integers, Sequences, FiniteSets, TLC

VARIABLES
    mode,          \* "interactive" (args.query empty) or "single"
    served,        \* single-shot mode: process_query has been called
    pc,            \* where the orchestrator is
    exc,           \* exception in flight out of input() / process_query
    backend,       \* what client.models.generate_content did in this query
    result,        \* what generate_command returned
    answer,        \* the line read at the confirmation prompt (line 184)
    proc,          \* what subprocess.run did
    output,        \* what execute_command returned
    console,       \* what was displayed since the query was read
    shell_calls,   \* commands handed to subprocess.run(shell=True) in this query
    gen_calls,     \* calls of generate_command in this query
    confirm_reads, \* reads of the confirmation prompt in this query
    query          \* the line main read last (line 139), or the joined arguments

vars == <<mode, served, pc, exc, query, backend, result, answer, proc, output,
          console, shell_calls, gen_calls, confirm_reads>>

\* ---------------------------------------------------------------- bounds
\* Longest run of tokens before and after the body of a backend reply.
MaxPad == 1
\* Longest captured standard output / standard error, in characters.
MaxOut == 2

\* ---------------------------------------------------------------- helpers
SeqsUpTo(S, n) == UNION {[1..m -> S] : m \in 0..n}

Tok(k, v) == [k |-> k, v |-> v]

PadTokens == {Tok("w", ""), Tok("p", ""), Tok("{", ""), Tok("}", ""), Tok("n", "")}

MemberKeys == {"command", "explanation", "safe", "warning"}

IsMember(t) == t.k \in MemberKeys

IsWhitespaceTok(t) == t.k = "w"

\* The command texts a backend may put in "command"; "" is the empty command.
CommandTexts == {"", "ls -l", "rm -rf 'my dir'"}

\* ------------------------------------------------------------- json.loads
\* A JSON value's Python value: true/false become booleans, strings stay.
Decode(t) == IF t.k = "safe" THEN t.v = "true" ELSE t.v

\* The dict of a member list: a later duplicate key wins.
Dict(ms) ==
    [key \in {ms[i].k : i \in DOMAIN ms} |->
        LET last == CHOOSE i \in DOMAIN ms :
                        /\ ms[i].k = key
                        /\ \A j \in DOMAIN ms : ms[j].k = key => j <= i
        IN Decode(ms[last])]

EmptyDict == Dict(<<>>)

ParseError == [ok |-> FALSE, kind |-> "error", d |-> EmptyDict]

\* json.loads: whitespace between tokens is skipped; the whole text must be
\* one value, a scalar or an object of members; anything else raises
\* JSONDecodeError.
json_loads(text) ==
    LET NotWs(t) == ~IsWhitespaceTok(t)
        t == SelectSeq(text, NotWs)
    IN IF Len(t) = 1 /\ t[1].k = "n"
       THEN [ok |-> TRUE, kind |-> "scalar", d |-> EmptyDict]
       ELSE IF /\ Len(t) >= 2
               /\ t[1].k = "{"
               /\ t[Len(t)].k = "}"
               /\ \A i \in 2..(Len(t) - 1) : IsMember(t[i])
            THEN [ok |-> TRUE, kind |-> "dict", d |-> Dict(SubSeq(t, 2, Len(t) - 1))]
            ELSE ParseError

\* str.strip(): leading and trailing whitespace removed.
strip(text) ==
    LET keep == {i \in DOMAIN text : ~IsWhitespaceTok(text[i])}
    IN IF keep = {} THEN <<>>
       ELSE LET lo == CHOOSE i \in keep : \A j \in keep : i <= j
                hi == CHOOSE i \in keep : \A j \in keep : j <= i
            IN SubSeq(text, lo, hi)

\* re.search(r'\{.*\}', text, re.DOTALL): from the first "{" to the last "}".
re_search(text) ==
    LET opens == {i \in DOMAIN text : text[i].k = "{"}
        closes == {i \in DOMAIN text : text[i].k = "}"}
    IN IF opens = {} THEN [found |-> FALSE, group |-> <<>>]
       ELSE LET lo == CHOOSE i \in opens : \A j \in opens : i <= j
                after == {i \in closes : i > lo}
            IN IF after = {} THEN [found |-> FALSE, group |-> <<>>]
               ELSE LET hi == CHOOSE i \in after : \A j \in after : j <= i
                    IN [found |-> TRUE, group |-> SubSeq(text, lo, hi)]

\* ------------------------------------------------------- generate_command
BackendError == [kind |-> "error", text |-> <<>>]
BackendNoText == [kind |-> "notext", text |-> <<>>]
NoReply == [kind |-> "nothing", text |-> <<>>]

Fallback ==
    [kind |-> "dict",
     d |-> [command |-> "",
            explanation |-> "Failed to process request",
            safe |-> FALSE,
            warning |-> "Unable to generate a proper response"]]

\* Lines 69-88: the value the try block returns, or ok = FALSE when it raises.
parse_reply(b) ==
    IF b.kind # "text" THEN ParseError
    ELSE LET response_text == strip(b.text)
             first == json_loads(response_text)
         IN IF first.ok THEN first
            ELSE LET json_match == re_search(response_text)
                 IN IF json_match.found THEN json_loads(json_match.group)
                    ELSE ParseError

generate_command(b) ==
    LET r == parse_reply(b)
    IN IF r.ok THEN [kind |-> r.kind, d |-> r.d] ELSE Fallback

\* -------------------------------------------------------- backend replies
Absent == "<absent>"

Opt(key, v) == IF v = Absent THEN <<>> ELSE <<Tok(key, v)>>

\* The JSON text of one object: its members between braces.
Encode(c, e, s, w) ==
    <<Tok("{", "")>> \o Opt("command", c) \o Opt("explanation", e)
        \o Opt("safe", s) \o Opt("warning", w) \o <<Tok("}", "")>>

ObjectTexts ==
    {Encode(c, e, s, w) : c \in CommandTexts \cup {Absent},
                          e \in {"lists the files", Absent},
                          s \in {"true", "false", Absent},
                          w \in {"this deletes data", Absent}}

Pads == SeqsUpTo(PadTokens, MaxPad)

ReplyTexts ==
    {pre \o body \o post : pre \in Pads, body \in ObjectTexts \cup {<<>>}, post \in Pads}

\* client.models.generate_content: it raises, or returns a response whose
\* .text is None or a text.
BackendOutcomes ==
    {[kind |-> "text", text |-> t] : t \in ReplyTexts} \cup {BackendError, BackendNoText}

\* -------------------------------------------------------- execute_command
OutChars == {"a", " "}

Whitespace == {" ", "\n", "\t"}

ReturnCodes == {0, 1, 127}

NoRun == [launched |-> FALSE, returncode |-> 0, stdout |-> <<>>, stderr |-> <<>>, none |-> TRUE]

\* subprocess.run: it raises (the subprocess could not be launched), or it
\* returns the exit code and the captured streams.
RunOutcomes ==
    {[launched |-> TRUE, returncode |-> rc, stdout |-> so, stderr |-> se, none |-> FALSE] :
        rc \in ReturnCodes, so \in SeqsUpTo(OutChars, MaxOut), se \in SeqsUpTo(OutChars, MaxOut)}
    \cup {[launched |-> FALSE, returncode |-> 0, stdout |-> <<>>, stderr |-> <<>>, none |-> FALSE]}

\* The command run as a program name, not by the shell (shell=True forgotten).
subprocess_args_noshell(command) == [args |-> command, shell |-> FALSE]

\* Line 101-106: what subprocess.run is called with.
subprocess_args(command) == [args |-> command, shell |-> TRUE]

\* execute_command without its try/except: a launch failure leaves it.
execute_command_unguarded(run) ==
    IF ~run.launched
    THEN [raised |-> TRUE, text |-> <<>>]
    ELSE IF run.returncode = 0
         THEN [raised |-> FALSE, text |-> run.stdout]
         ELSE [raised |-> FALSE,
               text |-> <<"Error (code ", ToString(run.returncode), "):\n">> \o run.stderr]

\* execute_command returning the bare standard error on a non-zero exit.
execute_command_bare_stderr(run) ==
    IF ~run.launched
    THEN [raised |-> FALSE, text |-> <<"Failed to execute command: ", "<str(e)>">>]
    ELSE IF run.returncode = 0
         THEN [raised |-> FALSE, text |-> run.stdout]
         ELSE [raised |-> FALSE, text |-> run.stderr]

\* Lines 100-113: the returned string, as chunks; raised = an exception
\* leaves execute_command.
execute_command(run) ==
    IF ~run.launched
    THEN [raised |-> FALSE, text |-> <<"Failed to execute command: ", "<str(e)>">>]
    ELSE IF run.returncode = 0
         THEN [raised |-> FALSE, text |-> run.stdout]
         ELSE [raised |-> FALSE,
               text |-> <<"Error (code ", ToString(run.returncode), "):\n">> \o run.stderr]

\* output.strip() is empty.
IsBlank(text) == \A i \in DOMAIN text : text[i] \in Whitespace

\* ----------------------------------------------------------- process_query
NoResult == [kind |-> "none", d |-> EmptyDict]

NoAnswer == "<unread>"

DefaultWarning == "This command might be destructive or have unintended consequences."

\* What process_query prints.
FailureNotice == "Sorry, I couldn't generate a command for that query."
SuggestionHeader == "Suggested Command:"
WarningHeader == "Safety Warning:"
ExecutingNotice == "Executing command..."
OutputHeader == "Output:"
OutputPanel == "<Panel(output)>"
NoOutputNotice == "Command executed successfully with no output."
CancelNotice == "Command execution cancelled."

\* str.lower() on the lines the model reads.
Lower(s) ==
    CASE s = "Y" -> "y"
      [] s = "N" -> "n"
      [] s = "EXIT" -> "exit"
      [] s = "Quit" -> "quit"
      [] s = "Q" -> "q"
      [] OTHER -> s

\* str.strip() on the lines the model reads.
strip_line(s) ==
    CASE s = "   " -> ""
      [] s = " exit" -> "exit"
      [] OTHER -> s

\* dict.get(key, default)
get(d, key, default) == IF key \in DOMAIN d THEN d[key] ELSE default

\* Only a missing key counts, an empty string does not.
CommandMissing_key_only(d) == "command" \notin DOMAIN d

\* Line 165: not result.get("command")
CommandMissing(d) == "command" \notin DOMAIN d \/ d["command"] = ""

\* Line 178: not result.get("safe", True)
ShowsWarning(d) == ~get(d, "safe", TRUE)

\* Everything but "n" confirms.
IsConfirmed_unless_n(c) == c # "n"

\* Line 185: confirm == 'y'
IsConfirmed(c) == c = "y"

\* The else branch falls through to the execution.
ConfirmBranch_fallthrough(line) ==
    IF IsConfirmed(Lower(line)) THEN "Confirmed" ELSE "Executing"

\* Lines 184-195: confirm = input(...).lower(), then the branch taken.
ConfirmBranch(line) == IF IsConfirmed(Lower(line)) THEN "Confirmed" ELSE "Cancelled"

\* What input() at line 184 does: a line, end of input, or Ctrl-C.
ConfirmLines == {"y", "Y", "n", "N", "", "later", "yes"}

InputFaults == {[kind |-> "eof", text |-> ""], [kind |-> "interrupt", text |-> ""]}

ConfirmInputs == {[kind |-> "line", text |-> a] : a \in ConfirmLines} \cup InputFaults

\* The exception input() raises.
InputException(inp) == IF inp.kind = "eof" THEN "Exception" ELSE "KeyboardInterrupt"

\* -------------------------------------------------------------------- main
ExitTokens == {"exit", "quit", "q"}

QueryLines == {"exit", "EXIT", "Quit", "q", "", "   ", " exit", "list files"}

QueryInputs == {[kind |-> "line", text |-> q] : q \in QueryLines} \cup InputFaults

\* Every exception ends the loop.
LoopHandler_always_break(e) == "break"

\* Lines 148-152: what the loop does with an exception.
LoopHandler(e) == IF e = "KeyboardInterrupt" THEN "break" ELSE "continue"

\* Line 140: query.lower() in ["exit", "quit", "q"]
IsExitToken(line) == Lower(line) \in ExitTokens

\* The per-query state before process_query runs.
Fresh ==
    /\ backend' = NoReply
    /\ result' = NoResult
    /\ answer' = NoAnswer
    /\ proc' = NoRun
    /\ output' = <<>>
    /\ shell_calls' = <<>>
    /\ gen_calls' = 0
    /\ confirm_reads' = 0

Init ==
    /\ mode \in {"interactive", "single"}
    /\ served = FALSE
    /\ pc = "Idle"
    /\ exc = "none"
    /\ backend = NoReply
    /\ result = NoResult
    /\ answer = NoAnswer
    /\ proc = NoRun
    /\ output = <<>>
    /\ console = <<>>
    /\ shell_calls = <<>>
    /\ gen_calls = 0
    /\ confirm_reads = 0
    /\ query = ""

\* Lines 139-147 and 160: one read of the interactive loop.
ReadQuery ==
    /\ mode = "interactive"
    /\ pc = "Idle"
    /\ exc = "none"
    /\ Fresh
    /\ UNCHANGED <<mode, served>>
    /\ \E inp \in QueryInputs :
        IF inp.kind # "line"
        THEN /\ exc' = InputException(inp)
             /\ console' = <<>>
             /\ UNCHANGED <<pc, query>>
        ELSE /\ query' = inp.text
             /\ UNCHANGED exc
             /\ IF IsExitToken(inp.text)
                THEN /\ console' = <<"Goodbye!">>
                     /\ pc' = "Exited"
                ELSE IF strip_line(inp.text) = ""
                THEN /\ console' = <<>>
                     /\ UNCHANGED pc
                ELSE /\ console' = <<"Processing">>
                     /\ pc' = "Synthesizing"

\* Lines 148-152: the loop's except clauses; in single-shot mode nothing
\* catches the exception and the process ends.
HandleException ==
    /\ pc = "Idle"
    /\ exc # "none"
    /\ IF mode = "interactive"
       THEN IF LoopHandler(exc) = "break"
            THEN /\ console' = Append(console, "Goodbye!")
                 /\ pc' = "Exited"
                 /\ exc' = "none"
            ELSE /\ console' = Append(console, "Error")
                 /\ exc' = "none"
                 /\ UNCHANGED pc
       ELSE /\ pc' = "Exited"
            /\ UNCHANGED <<console, exc>>
    /\ UNCHANGED <<mode, served, query, backend, result, answer, proc, output,
                   shell_calls, gen_calls, confirm_reads>>

\* Lines 155-156 and 160: the single-shot call of process_query.
SingleShot ==
    /\ mode = "single"
    /\ pc = "Idle"
    /\ ~served
    /\ served' = TRUE
    /\ Fresh
    /\ console' = <<"Processing">>
    /\ pc' = "Synthesizing"
    /\ query' = "list files"
    /\ UNCHANGED <<mode, exc>>

\* Line 156 returned: main ends.
SingleShotEnd ==
    /\ mode = "single"
    /\ pc = "Idle"
    /\ served
    /\ exc = "none"
    /\ pc' = "Exited"
    /\ UNCHANGED <<mode, served, exc, query, backend, result, answer, proc, output,
                   console, shell_calls, gen_calls, confirm_reads>>

\* Lines 162-163 with 68-96: the one call of generate_command.
GenerateCommand ==
    /\ pc = "Synthesizing"
    /\ \E b \in BackendOutcomes :
        /\ backend' = b
        /\ result' = generate_command(b)
        /\ console' = console \o <<"Thinking...">>
                        \o (IF parse_reply(b).ok THEN <<>> ELSE <<"Error generating command">>)
    /\ gen_calls' = gen_calls + 1
    /\ pc' = "Presenting"
    /\ UNCHANGED <<mode, served, exc, query, answer, proc, output, shell_calls,
                   confirm_reads>>

\* Lines 165-185: the failure notice, or the suggestion and the confirmation
\* prompt. result.get on a value that is no dict, and result["explanation"]
\* on a dict without it, raise.
Present ==
    /\ pc = "Presenting"
    /\ backend' = NoReply
    /\ UNCHANGED <<mode, served, query, result, proc, output, shell_calls, gen_calls>>
    /\ IF result.kind # "dict"
       THEN /\ exc' = "Exception"
            /\ pc' = "Idle"
            /\ UNCHANGED <<console, answer, confirm_reads>>
       ELSE IF CommandMissing(result.d)
       THEN /\ console' = Append(console, FailureNotice)
            /\ pc' = "Idle"
            /\ UNCHANGED <<exc, answer, confirm_reads>>
       ELSE IF "explanation" \notin DOMAIN result.d
       THEN /\ console' = console \o <<SuggestionHeader, result.d["command"]>>
            /\ exc' = "Exception"
            /\ pc' = "Idle"
            /\ UNCHANGED <<answer, confirm_reads>>
       ELSE /\ console' = console
                    \o <<SuggestionHeader, result.d["command"],
                         "Explanation:", result.d["explanation"]>>
                    \o (IF ShowsWarning(result.d)
                        THEN <<WarningHeader, get(result.d, "warning", DefaultWarning)>>
                        ELSE <<>>)
            /\ confirm_reads' = confirm_reads + 1
            /\ \E inp \in ConfirmInputs :
                IF inp.kind # "line"
                THEN /\ exc' = InputException(inp)
                     /\ pc' = "Idle"
                     /\ UNCHANGED answer
                ELSE /\ answer' = inp.text
                     /\ pc' = ConfirmBranch(inp.text)
                     /\ UNCHANGED exc

\* Line 186.
StartExecution ==
    /\ pc = "Confirmed"
    /\ console' = Append(console, ExecutingNotice)
    /\ pc' = "Executing"
    /\ UNCHANGED <<mode, served, exc, query, backend, result, answer, proc, output,
                   shell_calls, gen_calls, confirm_reads>>

\* Line 187 with 98-113: the call of execute_command.
Execute ==
    /\ pc = "Executing"
    /\ shell_calls' = Append(shell_calls, subprocess_args(result.d["command"]))
    /\ \E run \in RunOutcomes :
        /\ proc' = run
        /\ IF execute_command(run).raised
           THEN /\ exc' = "Exception"
                /\ pc' = "Idle"
                /\ UNCHANGED output
           ELSE /\ output' = execute_command(run).text
                /\ pc' = "ResultPresented"
                /\ UNCHANGED exc
    /\ UNCHANGED <<mode, served, query, backend, result, answer, console, gen_calls,
                   confirm_reads>>

\* Lines 189-193.
ShowResult ==
    /\ pc = "ResultPresented"
    /\ console' = console \o <<OutputHeader>>
                    \o (IF ~IsBlank(output)
                        THEN <<OutputPanel>>
                        ELSE <<NoOutputNotice>>)
    /\ pc' = "Idle"
    /\ UNCHANGED <<mode, served, exc, query, backend, result, answer, proc, output,
                   shell_calls, gen_calls, confirm_reads>>

\* Line 195.
Cancel ==
    /\ pc = "Cancelled"
    /\ console' = Append(console, CancelNotice)
    /\ pc' = "Idle"
    /\ UNCHANGED <<mode, served, exc, query, backend, result, answer, proc, output,
                   shell_calls, gen_calls, confirm_reads>>

Next ==
    \/ ReadQuery
    \/ HandleException
    \/ SingleShot
    \/ SingleShotEnd
    \/ GenerateCommand
    \/ Present
    \/ StartExecution
    \/ Execute
    \/ ShowResult
    \/ Cancel

Spec == Init /\ [][Next]_vars

\* ================================================================ claims
Shown(e) == \E i \in DOMAIN console : console[i] = e

\* The answers the prompt "(y/n)" takes as a yes.
AffirmativeAnswers == {"y", "Y"}

HasCommand(r) == r.kind = "dict" /\ get(r.d, "command", "") # ""

\* C1: once the confirmation prompt was answered with anything but an
\* affirmative token, nothing is handed to the shell in that query, the
\* orchestrator is cancelling or has returned, and once it has left the
\* cancelling state the cancellation notice is on the console.
C1_NonAffirmativeNeverExecutes ==
    (answer # NoAnswer /\ answer \notin AffirmativeAnswers) =>
        /\ shell_calls = <<>>
        /\ proc = NoRun
        /\ ~Shown(ExecutingNotice)
        /\ pc \in {"Cancelled", "Idle", "Exited"}
        /\ (pc # "Cancelled" => Shown(CancelNotice))

C1_Witness ==
    /\ pc = "Idle"
    /\ HasCommand(result)
    /\ answer = "later"
    /\ shell_calls = <<>>
    /\ Shown(CancelNotice)

\* C2: a suggestion whose command is empty is never offered: no confirmation
\* is read, nothing is handed to the shell, the suggestion is not displayed,
\* and once process_query has looked at it the failure notice is shown.
C2_EmptyCommandNeverOffered ==
    (result.kind = "dict" /\ get(result.d, "command", "") = "") =>
        /\ confirm_reads = 0
        /\ answer = NoAnswer
        /\ shell_calls = <<>>
        /\ ~Shown(SuggestionHeader)
        /\ pc \in {"Presenting", "Idle", "Exited"}
        /\ (pc # "Presenting" => Shown(FailureNotice))

C2_Witness ==
    /\ pc = "Idle"
    /\ result.kind = "dict"
    /\ get(result.d, "command", Absent) = ""
    /\ get(result.d, "safe", FALSE) = TRUE
    /\ "warning" \in DOMAIN result.d
    /\ Shown(FailureNotice)
    /\ confirm_reads = 0

\* C3: at most one command is handed to the shell per query; after an
\* affirmative answer nothing has run before execute_command is called, and
\* from then on exactly the suggestion's command has been handed to
\* subprocess.run with shell=True, unchanged.
C3_AffirmedRunsCommandOnce ==
    /\ Len(shell_calls) <= 1
    /\ answer \in AffirmativeAnswers =>
        IF pc \in {"Confirmed", "Executing"}
        THEN shell_calls = <<>>
        ELSE shell_calls = <<[args |-> result.d["command"], shell |-> TRUE]>>

C3_Witness ==
    /\ pc = "Idle"
    /\ answer = "Y"
    /\ result.d["command"] = "rm -rf 'my dir'"
    /\ shell_calls = <<[args |-> "rm -rf 'my dir'", shell |-> TRUE]>>

\* Some part of the text is a JSON object.
ContainsObject(text) ==
    \E i, j \in DOMAIN text :
        i <= j /\ json_loads(SubSeq(text, i, j)).kind = "dict"

\* A dict with the fields process_query reads without a default.
ValidSuggestion(r) ==
    r.kind = "dict" /\ "command" \in DOMAIN r.d /\ "explanation" \in DOMAIN r.d

\* C4: when the backend call failed or its reply contains no parseable
\* object, generate_command returns the fallback suggestion; and whatever
\* the backend did, what it returns is a valid suggestion.
C4_FallbackWithoutObject ==
    pc = "Presenting" =>
        /\ (backend.kind # "text" \/ ~ContainsObject(backend.text)) => result = Fallback
        /\ ValidSuggestion(result)

\* C5: when a JSON object is embedded in a longer reply, generate_command
\* returns what it returns for that object alone.
C5_EmbeddedObjectRecovered ==
    (pc = "Presenting" /\ backend.kind = "text") =>
        \A i, j \in DOMAIN backend.text :
            (/\ i <= j
             /\ (i > 1 \/ j < Len(backend.text))
             /\ json_loads(SubSeq(backend.text, i, j)).kind = "dict")
            => result = generate_command([kind |-> "text",
                                          text |-> SubSeq(backend.text, i, j)])

ExitCodeChunks == {ToString(rc) : rc \in ReturnCodes} \cup {"Error (code "}

\* C6: once subprocess.run has acted, no exception is in flight and
\* process_query goes on to the output; the returned text is the standard
\* output on exit code 0, the exit code and the standard error after a
\* non-zero exit, and a failure description with no exit code when the
\* subprocess could not be launched.
C6_ExecuteAlwaysReturnsText ==
    ~proc.none =>
        /\ exc = "none"
        /\ pc = "ResultPresented" \/ Shown(OutputHeader)
        /\ (proc.launched /\ proc.returncode = 0) => output = proc.stdout
        /\ (proc.launched /\ proc.returncode # 0) =>
            /\ Len(output) = 3 + Len(proc.stderr)
            /\ output[1] = "Error (code "
            /\ output[2] = ToString(proc.returncode)
            /\ SubSeq(output, 4, Len(output)) = proc.stderr
        /\ ~proc.launched =>
            /\ output # <<>>
            /\ output[1] = "Failed to execute command: "
            /\ \A i \in DOMAIN output : output[i] \notin ExitCodeChunks

C6_Witness ==
    /\ pc = "ResultPresented"
    /\ proc.launched
    /\ proc.returncode = 127
    /\ proc.stderr = <<"a", " ">>
    /\ output = <<"Error (code ", "127", "):\n", "a", " ">>

\* C7: for a suggestion with a non-empty command that process_query has
\* presented, the safety warning is on the console exactly when safe is
\* present and false, the confirmation was read, and an affirmative answer
\* leads to the execution.
C7_SafeOnlyAffectsDisplay ==
    (HasCommand(result) /\ pc # "Presenting") =>
        /\ Shown(WarningHeader) <=> (get(result.d, "safe", TRUE) = FALSE)
        /\ confirm_reads = 1
        /\ (answer \in AffirmativeAnswers /\ pc \in {"Idle", "Exited"}) =>
                Len(shell_calls) = 1

OrchestratorPath ==
    {<<"Idle", "Synthesizing">>, <<"Synthesizing", "Presenting">>,
     <<"Presenting", "Confirmed">>, <<"Presenting", "Cancelled">>,
     <<"Confirmed", "Executing">>, <<"Executing", "ResultPresented">>,
     <<"ResultPresented", "Idle">>, <<"Cancelled", "Idle">>,
     <<"Idle", "Exited">>}

\* One step of the orchestrator along the edges of `path`: generate_command
\* has been called once (and never twice) when anything of the suggestion is
\* presented, the confirmation is read at most once and not before the
\* synthesis, and Executing is entered from Confirmed.
PathStep(path) ==
    /\ pc' # pc => <<pc, pc'>> \in path
    /\ gen_calls' <= 1
    /\ confirm_reads' <= 1
    /\ pc' \in {"Presenting", "Confirmed", "Cancelled", "Executing", "ResultPresented"}
            => gen_calls' = 1
    /\ pc' = "Synthesizing" =>
            /\ gen_calls' = 0
            /\ confirm_reads' = 0
            /\ console' = <<"Processing">>
    /\ (\E i \in DOMAIN console' : console'[i] \in {SuggestionHeader, FailureNotice})
            => gen_calls' = 1
    /\ (pc' = "Executing" /\ pc # "Executing") => pc = "Confirmed"

\* C8 as stated: every call follows Idle -> Synthesizing -> Presenting ->
\* (Confirmed | Cancelled) -> [Executing -> ResultPresented] -> Idle.
C8_PathAsStated == [][PathStep(OrchestratorPath)]_vars

\* C8 as amended: as above, and from Presenting the call may also end back in
\* Idle at once, with no confirmation read (the failure notice for an empty
\* command, or a fault raised while presenting or reading the confirmation).
C8_PathWithDirectReturn ==
    [][PathStep(OrchestratorPath \cup {<<"Presenting", "Idle">>})]_vars

C8_Witness ==
    /\ pc = "Idle"
    /\ exc = "none"
    /\ gen_calls = 1
    /\ confirm_reads = 0
    /\ Shown(FailureNotice)

\* C9: in interactive mode the loop is left only by a step that read an exit
\* token or that handles an interrupt; a step that handles any other
\* exception prints the error and leaves the loop ready for the next read.
C9_LoopEndsOnlyOnExitOrInterrupt ==
    [][mode = "interactive" =>
        /\ (pc # "Exited" /\ pc' = "Exited") =>
                \/ exc = "KeyboardInterrupt"
                \/ exc = "none" /\ Lower(query') \in ExitTokens
        /\ exc = "Exception" =>
                /\ pc' = "Idle"
                /\ exc' = "none"
                /\ console' = Append(console, "Error")]_vars

C9_Witness ==
    /\ mode = "interactive"
    /\ pc = "Idle"
    /\ exc = "none"
    /\ gen_calls = 1
    /\ console # <<>>
    /\ console[Len(console)] = "Error"

\* C10: the no-output notice is on the console only after an exit code 0 with
\* blank standard output; after a non-zero exit or a launch failure the
\* returned text is not blank and the output panel is what is shown.
C10_NoOutputNoticeOnlyOnBlankSuccess ==
    /\ Shown(NoOutputNotice) =>
        /\ proc.launched
        /\ proc.returncode = 0
        /\ IsBlank(proc.stdout)
    /\ (~proc.none /\ (~proc.launched \/ proc.returncode # 0)) =>
        /\ ~IsBlank(output)
        /\ ~Shown(NoOutputNotice)
        /\ pc # "ResultPresented" => Shown(OutputPanel)

C10_Witness ==
    /\ Shown(NoOutputNotice)
    /\ proc.returncode = 0
    /\ proc.stdout = <<" ">>

====
